---- MODULE Spec2Model ----
(***************************************************************************)
(* Model of treetagger.py: the TreeTagger class (constructor and the lazy  *)
(* generator tag), the external tagger process it spawns, the temporary    *)
(* output file and the caller that iterates the returned generator.        *)
(***************************************************************************)
EXTENDS Integers, Sequences, FiniteSets, TLC

\* ------------------------------------------------------------------ bounds
NCalls == 2          \* tag calls made on the instance
MaxChars == 2        \* total characters the caller supplies over all inputs

\* --------------------------------------------------------------- characters
TAB == 9
NL == 10
UUmlaut == 252       \* a character outside ASCII, as in the documented example
Alphabet == {TAB, NL, UUmlaut}
\* str.strip() with no argument removes these code points (those below 256)
Whitespace == {9, 10, 11, 12, 13, 28, 29, 30, 31, 32, 133, 160}

Calls == 1..NCalls
FileIds == 1..NCalls
StreamIds == {1, 2}

RECURSIVE StringsUpTo(_)
StringsUpTo(n) ==
    IF n = 0 THEN {<<>>}
    ELSE LET S == StringsUpTo(n - 1)
         IN  S \cup {Append(s, ch) : s \in {t \in S : Len(t) = n - 1}, ch \in Alphabet}

\* ------------------------------------------------------- string operations
\* variant: a newline after every token instead of between tokens
RECURSIVE JoinTerminated(_)
JoinTerminated(l) ==
    IF l = <<>> THEN <<>> ELSE Head(l) \o <<NL>> \o JoinTerminated(Tail(l))

\* '\n'.join(sentences), line 111
RECURSIVE Join(_)
Join(l) ==
    IF l = <<>> THEN <<>>
    ELSE IF Len(l) = 1 THEN Head(l)
    ELSE Head(l) \o <<NL>> \o Join(Tail(l))

\* str.encode('utf-8'), line 132, for code points below 2048
EncodeChar(cp) == IF cp < 128 THEN <<cp>> ELSE <<192 + (cp \div 64), 128 + (cp % 64)>>

RECURSIVE Encode(_)
Encode(s) == IF s = <<>> THEN <<>> ELSE EncodeChar(Head(s)) \o Encode(Tail(s))

\* the utf8 decoding of the text-mode temporary file, line 120
RECURSIVE DecodeUtf8(_)
DecodeUtf8(b) ==
    IF b = <<>> THEN <<>>
    ELSE IF Head(b) < 128 THEN <<Head(b)>> \o DecodeUtf8(Tail(b))
    ELSE IF Len(b) >= 2
         THEN <<(Head(b) - 192) * 64 + (b[2] - 128)>> \o DecodeUtf8(Tail(Tail(b)))
         ELSE <<65533>>

\* str.strip(), line 142
RECURSIVE LStrip(_)
LStrip(s) == IF s # <<>> /\ Head(s) \in Whitespace THEN LStrip(Tail(s)) ELSE s

RECURSIVE RStrip(_)
RStrip(s) ==
    IF s # <<>> /\ s[Len(s)] \in Whitespace THEN RStrip(SubSeq(s, 1, Len(s) - 1)) ELSE s

Strip(s) == LStrip(RStrip(s))

\* str.split(sep), line 142: always at least one field
RECURSIVE SplitOn(_, _)
SplitOn(s, sep) ==
    IF \A i \in 1..Len(s) : s[i] # sep THEN <<s>>
    ELSE LET i == CHOOSE k \in 1..Len(s) : s[k] = sep /\ \A j \in 1..(k - 1) : s[j] # sep
         IN  <<SubSeq(s, 1, i - 1)>> \o SplitOn(SubSeq(s, i + 1, Len(s)), sep)

\* variant: one read takes all that is left of the file
LineEndWhole(content, pos) == Len(content)

\* one step of iterating the file object, line 141: the bytes of the line
\* that starts at offset pos, up to and including its terminator
LineEnd(content, pos) ==
    IF \E k \in (pos + 1)..Len(content) : content[k] = NL
    THEN CHOOSE k \in (pos + 1)..Len(content) :
             content[k] = NL /\ \A j \in (pos + 1)..(k - 1) : content[j] # NL
    ELSE Len(content)

ReadLine(content, pos) == SubSeq(content, pos + 1, LineEnd(content, pos))

\* variant: runs of separators count once and empty fields are dropped
SplitLineWords(line) == SelectSeq(SplitOn(Strip(line), TAB), LAMBDA f : f # <<>>)

\* tagged_line.strip().split('\t'), line 142
SplitLine(line) == SplitOn(Strip(line), TAB)

\* ------------------------------------------------------------ the inputs
\* the three input variants of tag: a list of tokens, a text, a readable stream
ListInput(l) == [kind |-> "list", toks |-> l, text |-> <<>>, id |-> 0]
StrInput(s) == [kind |-> "str", toks |-> <<>>, text |-> s, id |-> 0]
StreamInput(i) == [kind |-> "stream", toks |-> <<>>, text |-> <<>>, id |-> i]
NoInput == [kind |-> "none", toks |-> <<>>, text |-> <<>>, id |-> 0]

Strings == StringsUpTo(MaxChars)
\* the lists of k tokens whose joined text has at most MaxChars characters
RECURSIVE ListsOfLen(_)
ListsOfLen(k) ==
    IF k = 0 THEN {<<>>}
    ELSE {l \in {Append(m, t) : m \in ListsOfLen(k - 1), t \in Strings} :
              Len(Join(l)) <= MaxChars}

TokenLists == UNION {ListsOfLen(k) : k \in 0..(MaxChars + 1)}
Inputs ==
    {ListInput(l) : l \in TokenLists} \cup {StrInput(s) : s \in Strings}
        \cup {StreamInput(i) : i \in StreamIds}

\* characters the caller has to supply for an input (counted against MaxChars)
Cost(inp) ==
    IF inp.kind = "list" THEN Len(Join(inp.toks))
    ELSE IF inp.kind = "str" THEN Len(inp.text)
    ELSE 0

\* ----------------------------------------------------- the external tool
\* The tagger binary is a deterministic program: what it writes and how it
\* exits is a function of the bytes it reads on its standard input.
LetterN == 78         \* the tag the model tagger gives every token
ErrorText == <<69, 58>>
Tools == [kind : {"cat", "tagger"}, rc : {0, 1}]

RECURSIVE TagLines(_)
TagLines(lines) ==
    IF lines = <<>> THEN <<>>
    ELSE (IF Head(lines) = <<>> THEN <<>>
          ELSE Head(lines) \o <<TAB, LetterN, TAB>> \o Head(lines) \o <<NL>>)
         \o TagLines(Tail(lines))

ToolRun(t, bytes) ==
    [out |-> IF t.kind = "cat" THEN bytes ELSE TagLines(SplitOn(bytes, NL)),
     err |-> IF t.rc = 0 THEN <<>> ELSE ErrorText \o bytes,
     rc |-> t.rc]

\* ------------------------------------------------------------- the state
VARIABLES
    inst,        \* "none", "ready" (constructed) or "raised" (constructor raised)
    bin,         \* self._treetagger_bin, or UNSET when the attribute was never assigned
    abbr,        \* self._abbr_list
    tool,        \* the behaviour of the binary the path resolves to
    printed,     \* what the module has printed on standard output
    streams,     \* the caller's readable streams: data and read offset
    files,       \* temporary files: state, bytes and file offset
    pc,          \* position of each tag call
    arg,         \* the argument of each tag call
    ninput,      \* _input of each call
    infile,      \* infile of each call
    outfile,     \* outfile of each call (a file id)
    proc,        \* p of each call: the child process and its streams
    stderrv,     \* stderr of each call, as returned by communicate
    yielded,     \* the records each caller has received
    raised,      \* the exception each call has raised to its caller
    io,          \* one communicate in progress, pipe by pipe (IoOff when not followed)
    ctor         \* the arguments __init__ was called with, and whether it called find_binary

mainvars == <<inst, bin, abbr, printed, streams, files, pc, arg, ninput, infile,
              outfile, proc, stderrv, yielded, raised, ctor>>

vars == <<mainvars, tool, io>>

UNSET == "UNSET"
None == "None"
PIPE == "PIPE"
NoProc == [state |-> "none", argv |-> <<>>, stdin |-> "none", stderr |-> "none",
           sent |-> <<>>, got |-> <<>>, out |-> <<>>, err |-> <<>>, returncode |-> None]

\* what is printed and what an exception carries: a str or a bytes object
Text(t) == [kind |-> "str", text |-> t, bytes |-> <<>>]
Bytes(b) == [kind |-> "bytes", text |-> "", bytes |-> b]
NoError == [type |-> "none", args |-> <<>>]

_treetagger_languages ==
    {"bulgarian", "dutch", "english", "estonian", "finnish", "french", "galician",
     "german", "italian", "polish", "portuguese", "portuguese-finegrained",
     "russian", "slovak", "slovak2", "spanish"}

IoOff == [phase |-> "Off"]
NoCtor == [platform |-> "", language |-> "", abbreviation_list |-> None,
           asked |-> FALSE, found |-> FALSE]

NoCalls ==
    /\ inst = "none"
    /\ bin = UNSET
    /\ abbr = None
    /\ printed = <<>>
    /\ streams = [i \in StreamIds |-> [open |-> FALSE, data |-> <<>>, pos |-> 0]]
    /\ files = [f \in FileIds |-> [state |-> "free", content |-> <<>>, pos |-> 0]]
    /\ pc = [c \in Calls |-> "Uncalled"]
    /\ arg = [c \in Calls |-> NoInput]
    /\ ninput = [c \in Calls |-> NoInput]
    /\ infile = [c \in Calls |-> None]
    /\ outfile = [c \in Calls |-> 0]
    /\ proc = [c \in Calls |-> NoProc]
    /\ stderrv = [c \in Calls |-> None]
    /\ yielded = [c \in Calls |-> <<>>]
    /\ raised = [c \in Calls |-> NoError]
    /\ ctor = NoCtor

Init ==
    /\ NoCalls
    /\ tool \in Tools
    /\ io = IoOff

\* ------------------------------------------------------------ constructor
Platforms == {"linux", "win32"}
SpecLanguages == {"german", "klingon"}

\* variant: the name is built without looking the language up
BinNameUnchecked(platform, language) ==
    IF platform = "win32" THEN <<"tag-", language>> ELSE <<"tree-tagger-", language>>

\* lines 86-92: the name of the binary for a language, or no name at all
BinName(platform, language) ==
    IF language \in _treetagger_languages
    THEN IF platform = "win32" THEN <<"tag-", language>> ELSE <<"tree-tagger-", language>>
    ELSE None

\* variant: the bare name is kept when find_binary fails
LocatedOrDefault(found, name) == name

\* lines 94-102: self._treetagger_bin after the try statement; a LookupError
\* of find_binary is caught and leaves the attribute unassigned
Located(found, name) == IF found THEN name ELSE UNSET

\* TreeTagger.__init__, lines 64-102.  found is the outcome of find_binary.
Construct(platform, language, found, abbreviation_list) ==
    /\ inst = "none"
    /\ abbr' = abbreviation_list
    /\ IF BinName(platform, language) = None
       THEN /\ inst' = "raised"
            /\ ctor' = [platform |-> platform, language |-> language,
                        abbreviation_list |-> abbreviation_list,
                        asked |-> FALSE, found |-> FALSE]
            /\ UNCHANGED <<bin, printed>>
       ELSE /\ inst' = "ready"
            /\ ctor' = [platform |-> platform, language |-> language,
                        abbreviation_list |-> abbreviation_list,
                        asked |-> TRUE, found |-> found]
            /\ bin' = Located(found, BinName(platform, language))
            /\ printed' = IF found THEN printed
                          ELSE Append(printed, Text("NLTK was unable to find the TreeTagger bin!"))
    /\ UNCHANGED <<tool, streams, files, pc, arg, ninput, infile, outfile, proc,
                   stderrv, yielded, raised, io>>

\* -------------------------------------------------------------- the caller
RECURSIVE SumCost(_)
SumCost(S) ==
    IF S = {} THEN 0
    ELSE LET c == CHOOSE x \in S : TRUE IN Cost(arg[c]) + SumCost(S \ {c})

RECURSIVE SumData(_)
SumData(S) ==
    IF S = {} THEN 0
    ELSE LET i == CHOOSE x \in S : TRUE
         IN  Len(DecodeUtf8(streams[i].data)) + SumData(S \ {i})

Used == SumCost(Calls) + SumData(StreamIds)

\* variant: the body starts to run at the call
SuspendedAtBody == "Normalizing"

\* lines 104-143: the body of tag holds a yield, so the call returns a
\* generator suspended before the first statement
SuspendedAtStart == "Idle"

\* tt.tag(sentences): calling a generator function runs none of its body.
\* A stream argument is an open file of the caller's; data is what it holds
\* when the caller opens it for this call.
Tag(c, sentences, data) ==
    /\ inst = "ready"
    /\ pc[c] = "Uncalled"
    /\ \A d \in Calls : d < c => pc[d] # "Uncalled"
    /\ IF sentences.kind = "stream" /\ ~streams[sentences.id].open
       THEN /\ \A j \in StreamIds : j < sentences.id => streams[j].open
            /\ Used + Len(data) <= MaxChars
            /\ streams' = [streams EXCEPT ![sentences.id] =
                             [open |-> TRUE, data |-> Encode(data), pos |-> 0]]
       ELSE /\ data = <<>>
            /\ Used + Cost(sentences) <= MaxChars
            /\ UNCHANGED streams
    /\ pc' = [pc EXCEPT ![c] = SuspendedAtStart]
    /\ arg' = [arg EXCEPT ![c] = sentences]
    /\ UNCHANGED <<inst, bin, abbr, tool, printed, files, ninput, infile,
                   outfile, proc, stderrv, yielded, raised, io, ctor>>

\* the caller's first request for a record starts the body of tag
RequestFirst(c) ==
    /\ pc[c] = "Idle"
    /\ pc' = [pc EXCEPT ![c] = "Normalizing"]
    /\ UNCHANGED <<inst, bin, abbr, tool, printed, streams, files, arg, ninput, infile,
                   outfile, proc, stderrv, yielded, raised, io, ctor>>

\* ------------------------------------------------------------------- tag
\* lines 110-113
NormalizeInput(sentences) ==
    IF sentences.kind = "list" THEN StrInput(Join(sentences.toks)) ELSE sentences

\* hasattr(_input, 'read'), lines 115 and 129
HasRead(x) == x.kind = "stream"

\* variant: the child's stdin is a pipe whatever the input is
ChooseInfilePipe(x) == PIPE

\* lines 115-118
ChooseInfile(x) == IF HasRead(x) THEN <<"stream", x.id>> ELSE PIPE

\* variant: one fixed file for every call
TemporaryFileShared(fs) == 1

\* tempfile.TemporaryFile, line 120: a file no other holder has
TemporaryFile(fs) ==
    CHOOSE f \in FileIds :
        fs[f].state = "free" /\ \A g \in FileIds : g < f => fs[g].state # "free"

\* lines 121-126: the argument vector
Argv(b, a) == IF a = None THEN <<b>> ELSE <<b, "-a", a>>

\* variant: the abbreviation list is used up by the call that passes it
SelfAfterPopenConsumed(b, a) == [_treetagger_bin |-> b, _abbr_list |-> None]

\* lines 122-126 read self._treetagger_bin and self._abbr_list to build the
\* argument list and assign neither; no other line of tag names them
SelfAfterPopen(b, a) == [_treetagger_bin |-> b, _abbr_list |-> a]

\* lines 110-126: normalize the input, choose the child's stdin, create the
\* output file, then start the process.  Reading self._treetagger_bin raises
\* AttributeError when the constructor never set it.
Spawn(c) ==
    /\ pc[c] = "Normalizing"
    /\ ninput' = [ninput EXCEPT ![c] = NormalizeInput(arg[c])]
    /\ infile' = [infile EXCEPT ![c] = ChooseInfile(NormalizeInput(arg[c]))]
    /\ LET f == TemporaryFile(files) IN
        /\ outfile' = [outfile EXCEPT ![c] = f]
        /\ files' = [files EXCEPT ![f].state = "open"]
    /\ IF bin = UNSET
       THEN /\ raised' = [raised EXCEPT ![c] = [type |-> "AttributeError", args |-> <<Text("_treetagger_bin")>>]]
            /\ pc' = [pc EXCEPT ![c] = "SpawnError"]
            /\ UNCHANGED proc
       ELSE /\ proc' = [proc EXCEPT ![c] =
                          [state |-> "running", argv |-> Argv(bin, abbr),
                           stdin |-> IF infile'[c] = PIPE THEN "pipe" ELSE "inherited",
                           stderr |-> "pipe", sent |-> <<>>, got |-> <<>>, out |-> <<>>,
                           err |-> <<>>,
                           returncode |-> None]]
            /\ pc' = [pc EXCEPT ![c] = "ProcessRunning"]
            /\ UNCHANGED raised
    /\ bin' = SelfAfterPopen(bin, abbr)._treetagger_bin
    /\ abbr' = SelfAfterPopen(bin, abbr)._abbr_list
    /\ UNCHANGED <<inst, tool, printed, streams, arg, stderrv, yielded, io, ctor>>

\* a write of bytes at the offset of an open file
WriteAt(file, bytes) ==
    [file EXCEPT !.content = SubSeq(@, 1, file.pos) \o bytes,
                 !.pos = file.pos + Len(bytes)]

\* variant: a newline is added after the text
PayloadTerminated(c) == Encode(ninput[c].text) \o <<NL>>

\* str(_input).encode('utf-8'), line 132
Payload(c) == Encode(ninput[c].text)

\* lines 129-132: what communicate is given to write on the child's stdin
Sent(c) == IF HasRead(ninput[c]) THEN <<>> ELSE Payload(c)

\* the bytes the child reads on its standard input until end of input:
\* the payload written by communicate (line 132), or the rest of the stream
StdinBytes(c) ==
    IF infile[c] = PIPE THEN Payload(c)
    ELSE LET st == streams[infile[c][2]] IN SubSeq(st.data, st.pos + 1, Len(st.data))

\* lines 129-132: p.communicate.  Writes the payload (payload mode) and closes
\* stdin, reads stderr to its end, waits for the child; meanwhile the child
\* reads its input, writes its output to outfile and exits.
Communicate(c) ==
    /\ pc[c] = "ProcessRunning"
    /\ LET r == ToolRun(tool, StdinBytes(c)) IN
        /\ files' = [files EXCEPT ![outfile[c]] = WriteAt(@, r.out)]
        /\ proc' = [proc EXCEPT ![c] =
                      [@ EXCEPT !.state = "exited", !.sent = Sent(c), !.got = StdinBytes(c),
                                !.out = r.out, !.err = r.err,
                                !.stdin = IF @ = "pipe" THEN "closed" ELSE @,
                                !.stderr = "closed", !.returncode = r.rc]]
        /\ stderrv' = [stderrv EXCEPT ![c] = r.err]
    /\ streams' = IF infile[c] = PIPE THEN streams
                  ELSE [streams EXCEPT ![infile[c][2]].pos = Len(streams[infile[c][2]].data)]
    /\ pc' = [pc EXCEPT ![c] = "Exited"]
    /\ UNCHANGED <<inst, bin, abbr, tool, printed, arg, ninput, infile, outfile,
                   yielded, raised, io, ctor>>

\* variant: only death by a signal counts as failure
ReturnCodeNegative(rc) == rc < 0

\* line 135
ReturnCodeBad(rc) == rc # 0

\* print(stderr), line 136: the bytes object communicate returned
PrintedStderr(e) == Bytes(e)

\* line 137
CommandFailed(e) == [type |-> "OSError", args |-> <<Text("TreeTagger command failed!")>>]

\* variant: the file is read from where the child left its offset
SeekNowhere(file) == file

\* outfile.seek(0), line 139
SeekStart(file) == [file EXCEPT !.pos = 0]

\* lines 135-139
CheckReturn(c) ==
    /\ pc[c] = "Exited"
    /\ IF ReturnCodeBad(proc[c].returncode)
       THEN /\ printed' = Append(printed, PrintedStderr(stderrv[c]))
            /\ raised' = [raised EXCEPT ![c] = CommandFailed(stderrv[c])]
            /\ pc' = [pc EXCEPT ![c] = "Failed"]
            /\ UNCHANGED files
       ELSE /\ files' = [files EXCEPT ![outfile[c]] = SeekStart(@)]
            /\ pc' = [pc EXCEPT ![c] = "Decoding"]
            /\ UNCHANGED <<printed, raised>>
    /\ UNCHANGED <<inst, bin, abbr, tool, streams, arg, ninput, infile, outfile, proc,
                   stderrv, yielded, io, ctor>>

\* lines 141-143: the caller asks for the next record; the loop reads the
\* next line and yields its fields, or ends when the file is exhausted
NextRecord(c) ==
    /\ pc[c] = "Decoding"
    /\ LET file == files[outfile[c]] IN
        IF file.pos >= Len(file.content)
        THEN /\ pc' = [pc EXCEPT ![c] = "Done"]
             /\ UNCHANGED <<files, yielded>>
        ELSE /\ yielded' = [yielded EXCEPT ![c] =
                   Append(@, SplitLine(DecodeUtf8(ReadLine(file.content, file.pos))))]
             /\ files' = [files EXCEPT ![outfile[c]].pos = LineEnd(file.content, file.pos)]
             /\ UNCHANGED pc
    /\ UNCHANGED <<inst, bin, abbr, tool, printed, streams, arg, ninput, infile, outfile,
                   proc, stderrv, raised, io, ctor>>

\* the caller stops asking while the generator is suspended at its yield
Abandon(c) ==
    /\ pc[c] = "Decoding"
    /\ yielded[c] # <<>>
    /\ pc' = [pc EXCEPT ![c] = "Abandoned"]
    /\ UNCHANGED <<inst, bin, abbr, tool, printed, streams, files, arg, ninput, infile,
                   outfile, proc, stderrv, yielded, raised, io, ctor>>

Ended(c) == pc[c] \in {"Done", "Failed", "SpawnError", "Abandoned"}

\* tag never closes outfile: the file is closed only when the interpreter
\* finalizes the file object, once nothing refers to the generator's frame
Finalize(c) ==
    /\ Ended(c)
    /\ outfile[c] # 0
    /\ files[outfile[c]].state = "open"
    /\ files' = [files EXCEPT ![outfile[c]].state = "closed"]
    /\ UNCHANGED <<inst, bin, abbr, tool, printed, streams, pc, arg, ninput, infile,
                   outfile, proc, stderrv, yielded, raised, io, ctor>>

Next ==
    \/ \E p \in {"linux"}, l \in SpecLanguages, f \in BOOLEAN, a \in {None, "abbreviations"} :
           Construct(p, l, f, a)
    \/ \E c \in Calls, x \in Inputs :
           \E d \in (IF x.kind = "stream" THEN Strings ELSE {<<>>}) : Tag(c, x, d)
    \/ \E c \in Calls : RequestFirst(c)
    \/ \E c \in Calls : Spawn(c)
    \/ \E c \in Calls : Communicate(c)
    \/ \E c \in Calls : CheckReturn(c)
    \/ \E c \in Calls : NextRecord(c)
    \/ \E c \in Calls : Abandon(c)
    \/ \E c \in Calls : Finalize(c)

Spec == Init /\ [][Next]_vars

\* the constructor alone, over every supported language and some others
OtherLanguages == {"klingon", "German", ""}

NextCtor ==
    \E p \in Platforms, l \in _treetagger_languages \cup OtherLanguages,
       f \in BOOLEAN, a \in {None, "abbreviations"} :
          Construct(p, l, f, a)

SpecCtor == Init /\ [][NextCtor]_vars

\* ------------------------------------------- communicate, pipe by pipe
\* One payload-mode call followed through p.communicate(payload), line 132:
\* stdin and stderr of the child are pipes of bounded capacity, its stdout is
\* the temporary file.  Only sizes matter here, so the pipes hold byte counts.
PipeCap == 1         \* bytes a pipe holds before a write to it blocks
MaxPayload == 3      \* bytes of payload
MaxErr == 2          \* bytes the child writes on standard error
MaxOut == 2          \* bytes the child writes on standard output

InitPipe ==
    /\ NoCalls
    /\ tool \in Tools
    /\ \E n \in 0..MaxPayload, e \in 0..MaxErr, o \in 0..MaxOut :
         io = [phase |-> "ProcessRunning",
               payload |-> n, errTotal |-> e, outTotal |-> o,
               toWrite |-> n, stdinOpen |-> TRUE, inPipe |-> 0,
               errPipe |-> 0, errRead |-> 0, errEOF |-> FALSE,
               child |-> "running", op |-> "choose", eofSeen |-> FALSE,
               errLeft |-> e, outLeft |-> o, sink |-> 0]

\* variant: stderr is read only once the payload is written and stdin closed
StderrAfterStdin(q) == ~q.stdinOpen

\* communicate waits on stdin and stderr together: it reads stderr whenever
\* the pipe is readable, whether or not the payload is written yet
StderrPolled(q) == TRUE

\* communicate writes the next byte of the payload when the pipe has room
WritePayload ==
    /\ io.phase = "ProcessRunning"
    /\ io.stdinOpen /\ io.toWrite > 0 /\ io.inPipe < PipeCap
    /\ io' = [io EXCEPT !.toWrite = @ - 1, !.inPipe = @ + 1]
    /\ UNCHANGED <<mainvars, tool>>

\* communicate closes stdin once the payload is written
CloseStdin ==
    /\ io.phase = "ProcessRunning"
    /\ io.stdinOpen /\ io.toWrite = 0
    /\ io' = [io EXCEPT !.stdinOpen = FALSE]
    /\ UNCHANGED <<mainvars, tool>>

\* communicate reads what the stderr pipe holds, or its end once the child
\* has exited and the pipe is empty
ReadStderr ==
    /\ io.phase = "ProcessRunning"
    /\ ~io.errEOF
    /\ StderrPolled(io)
    /\ \/ /\ io.errPipe > 0
          /\ io' = [io EXCEPT !.errRead = @ + io.errPipe, !.errPipe = 0]
       \/ /\ io.errPipe = 0 /\ io.child = "exited"
          /\ io' = [io EXCEPT !.errEOF = TRUE]
    /\ UNCHANGED <<mainvars, tool>>

\* communicate returns when both pipes are done and the child is reaped;
\* lines 135-139 then raise or start decoding
WaitAndCheck ==
    /\ io.phase = "ProcessRunning"
    /\ ~io.stdinOpen /\ io.errEOF /\ io.child = "exited"
    /\ io' = [io EXCEPT !.phase = IF ReturnCodeBad(tool.rc) THEN "Failed" ELSE "Decoding"]
    /\ UNCHANGED <<mainvars, tool>>

\* the child commits to its next system call: a read of its input until it
\* has seen the end, a write of pending diagnostics or output, or exit
ChildChoose(op) ==
    /\ io.phase = "ProcessRunning"
    /\ io.child = "running" /\ io.op = "choose"
    /\ \/ op = "read" /\ ~io.eofSeen
       \/ op = "werr" /\ io.errLeft > 0
       \/ op = "wout" /\ io.outLeft > 0
       \/ op = "exit" /\ io.eofSeen /\ io.errLeft = 0 /\ io.outLeft = 0
    /\ io' = [io EXCEPT !.op = op]
    /\ UNCHANGED <<mainvars, tool>>

\* read(0): blocks while the pipe is empty and its write end is open
ChildRead ==
    /\ io.child = "running" /\ io.op = "read"
    /\ \/ /\ io.inPipe > 0
          /\ io' = [io EXCEPT !.inPipe = @ - 1, !.op = "choose"]
       \/ /\ io.inPipe = 0 /\ ~io.stdinOpen
          /\ io' = [io EXCEPT !.eofSeen = TRUE, !.op = "choose"]
    /\ UNCHANGED <<mainvars, tool>>

\* write(2): blocks while the pipe is full
ChildWriteErr ==
    /\ io.child = "running" /\ io.op = "werr"
    /\ io.errPipe < PipeCap
    /\ io' = [io EXCEPT !.errPipe = @ + 1, !.errLeft = @ - 1, !.op = "choose"]
    /\ UNCHANGED <<mainvars, tool>>

\* write(1): the temporary file takes any amount
ChildWriteOut ==
    /\ io.child = "running" /\ io.op = "wout"
    /\ io' = [io EXCEPT !.sink = @ + 1, !.outLeft = @ - 1, !.op = "choose"]
    /\ UNCHANGED <<mainvars, tool>>

ChildExit ==
    /\ io.child = "running" /\ io.op = "exit"
    /\ io' = [io EXCEPT !.child = "exited"]
    /\ UNCHANGED <<mainvars, tool>>

NextPipe ==
    \/ WritePayload
    \/ CloseStdin
    \/ ReadStderr
    \/ WaitAndCheck
    \/ \E op \in {"read", "werr", "wout", "exit"} : ChildChoose(op)
    \/ ChildRead
    \/ ChildWriteErr
    \/ ChildWriteOut
    \/ ChildExit

\* the calling thread runs, and the child keeps running until it exits
SpecPipe ==
    /\ InitPipe
    /\ [][NextPipe]_vars
    /\ WF_vars(WritePayload) /\ WF_vars(CloseStdin) /\ WF_vars(ReadStderr)
    /\ WF_vars(WaitAndCheck)
    /\ WF_vars(\E op \in {"read", "werr", "wout", "exit"} : ChildChoose(op))
    /\ WF_vars(ChildRead) /\ WF_vars(ChildWriteErr) /\ WF_vars(ChildWriteOut)
    /\ WF_vars(ChildExit)

\* ------------------------------------------------------------------ claims
Failing(c) == proc[c].state = "exited" /\ proc[c].returncode # 0

\* C1: a call whose process exited with a non-zero status has yielded no
\* record, whatever the process wrote to the output file, and once it has acted
\* on the status it has raised its error with still no record yielded.
C1_NoPartialResults ==
    \A c \in Calls :
        Failing(c) =>
            /\ yielded[c] = <<>>
            /\ pc[c] \in {"Exited", "Failed"}
            /\ pc[c] = "Failed" => raised[c].type = "OSError"

C1_Witness ==
    \E c \in Calls :
        /\ pc[c] = "Failed"
        /\ files[outfile[c]].content # <<>>
        /\ raised[c].type = "OSError"
        /\ yielded[c] = <<>>

\* an exception carries b when b, as bytes or decoded, is one of its arguments
Carries(e, b) ==
    \E i \in DOMAIN e.args :
        \/ e.args[i].kind = "bytes" /\ e.args[i].bytes = b
        \/ e.args[i].kind = "chars" /\ e.args[i].bytes = DecodeUtf8(b)

\* C2: the error raised after a non-zero exit carries the standard-error
\* content the process wrote.
C2_ErrorCarriesStderr ==
    \A c \in Calls : pc[c] = "Failed" => Carries(raised[c], proc[c].err)

\* the lines of an output: every terminator ends one, and bytes after the last
\* terminator form one more
NumLines(content) ==
    Cardinality({k \in 1..Len(content) : content[k] = NL})
        + (IF content # <<>> /\ content[Len(content)] # NL THEN 1 ELSE 0)

\* the lines that hold at least one character before their terminator
NumNonEmptyLines(content) ==
    Cardinality({k \in 1..Len(content) :
                    content[k] # NL /\ (k = Len(content) \/ content[k + 1] = NL)})

\* C3 as stated: a successful, exhausted call has yielded as many records as
\* the tool wrote non-empty lines.
C3_CountsNonEmptyLines ==
    \A c \in Calls : pc[c] = "Done" => Len(yielded[c]) = NumNonEmptyLines(proc[c].out)

\* C3 amended: a successful, exhausted call has yielded as many records as the
\* tool wrote lines, empty and whitespace-only lines included; each such line
\* gives the record of one empty field.
C3_CountsLines ==
    \A c \in Calls :
        pc[c] = "Done" =>
            /\ Len(yielded[c]) = NumLines(proc[c].out)
            /\ \A k \in 1..Len(yielded[c]) : Len(yielded[c][k]) >= 1

C3_Witness ==
    \E c \in Calls :
        /\ pc[c] = "Done"
        /\ Len(yielded[c]) = 2
        /\ NumNonEmptyLines(proc[c].out) = 1
        /\ \E k \in 1..2 : yielded[c][k] = << <<>> >>

\* C4: when a call has ended, on any path, its process is reaped, the pipes
\* to it are closed and its temporary output file is closed.
C4_ReleasedOnEveryExit ==
    \A c \in Calls :
        Ended(c) =>
            /\ proc[c].state # "running"
            /\ proc[c].stdin # "pipe"
            /\ proc[c].stderr # "pipe"
            /\ outfile[c] # 0 => files[outfile[c]].state # "open"

\* C5: a payload-mode call whose child keeps running reaches the failure
\* outcome or decoding, whatever the sizes of payload, output and diagnostics
\* against the capacity of the pipes.
C5_NoDeadlock == <>(io.phase \in {"Failed", "Decoding"})

C5_Witness ==
    /\ io.phase \in {"Failed", "Decoding"}
    /\ io.payload > PipeCap /\ io.errTotal > PipeCap /\ io.outTotal > PipeCap
    /\ io.errRead = io.errTotal /\ io.sink = io.outTotal

\* the records of a whole output file, read from offset pos to its end
RECURSIVE AllRecords(_, _)
AllRecords(content, pos) ==
    IF pos >= Len(content) THEN <<>>
    ELSE <<SplitLine(DecodeUtf8(ReadLine(content, pos)))>>
             \o AllRecords(content, LineEnd(content, pos))

\* the bytes the process of call c reads when no other call runs
AloneBytes(c) ==
    IF arg[c].kind = "stream" THEN streams[arg[c].id].data
    ELSE Encode(NormalizeInput(arg[c]).text)

AloneRecords(c) == AllRecords(ToolRun(tool, AloneBytes(c)).out, 0)

\* each call has a temporary file of its own, holding what its own process wrote
OwnSink ==
    /\ \A c, d \in Calls : (c # d /\ outfile[c] # 0 /\ outfile[d] # 0) => outfile[c] # outfile[d]
    /\ \A c \in Calls : proc[c].state = "exited" => files[outfile[c]].content = proc[c].out

\* C6 as stated: whatever the interleaving, an exhausted call has yielded the
\* records it yields when it runs alone, from a process and a file of its own.
C6_AsIfAlone ==
    /\ OwnSink
    /\ \A c \in Calls : proc[c].state = "exited" => proc[c].got = AloneBytes(c)
    /\ \A c \in Calls : pc[c] = "Done" => yielded[c] = AloneRecords(c)

\* no other call was given the readable stream call c was given
SoleReader(c) == arg[c].kind = "stream" => \A d \in Calls \ {c} : arg[d] # arg[c]

\* C6 amended: the same, for the calls that are not given a readable stream
\* another call is given too.
C6_Isolated ==
    /\ OwnSink
    /\ \A c \in Calls :
         (SoleReader(c) /\ proc[c].state = "exited") => proc[c].got = AloneBytes(c)
    /\ \A c \in Calls : (SoleReader(c) /\ pc[c] = "Done") => yielded[c] = AloneRecords(c)

C6_Witness ==
    /\ pc[1] = "Done" /\ pc[2] = "Decoding"
    /\ yielded[1] # <<>> /\ yielded[2] # <<>> /\ yielded[1][1] # yielded[2][1]
    /\ files[outfile[1]].state = "open" /\ files[outfile[2]].state = "open"

NoLineBreaks(toks) == \A i \in 1..Len(toks) : \A k \in 1..Len(toks[i]) : toks[i][k] # NL

\* text is the tokens with exactly one newline between neighbours and none
\* before the first or after the last
JoinedAs(text, toks) == IF toks = <<>> THEN text = <<>> ELSE SplitOn(text, NL) = toks

\* the length of the UTF-8 form of a text
Utf8Len(text) == Len(text) + Cardinality({k \in 1..Len(text) : text[k] >= 128})

\* C7: the bytes the process receives for a list of tokens without line
\* breaks are the UTF-8 form of the tokens joined by single newlines, the same
\* bytes it receives for that joined text given as one string; both are
\* written through a pipe.
C7_SamePayload ==
    /\ \A c \in Calls :
         (proc[c].state = "exited" /\ arg[c].kind = "list" /\ NoLineBreaks(arg[c].toks)) =>
             /\ infile[c] = PIPE
             /\ JoinedAs(DecodeUtf8(proc[c].got), arg[c].toks)
    /\ \A c \in Calls :
         (proc[c].state = "exited" /\ arg[c].kind = "str") =>
             /\ infile[c] = PIPE
             /\ DecodeUtf8(proc[c].got) = arg[c].text
             /\ Len(proc[c].got) = Utf8Len(arg[c].text)
    /\ \A c, d \in Calls :
         (/\ proc[c].state = "exited" /\ proc[d].state = "exited"
          /\ arg[c].kind = "list" /\ NoLineBreaks(arg[c].toks)
          /\ arg[d].kind = "str" /\ JoinedAs(arg[d].text, arg[c].toks)) =>
             proc[c].got = proc[d].got

C7_Witness ==
    \E c, d \in Calls :
        /\ proc[c].state = "exited" /\ proc[d].state = "exited"
        /\ arg[c].kind = "list" /\ Len(arg[c].toks) = 2
        /\ arg[d].kind = "str" /\ JoinedAs(arg[d].text, arg[c].toks)
        /\ proc[c].got = proc[d].got /\ proc[c].got # <<>>

NotFoundReported ==
    \E i \in 1..Len(printed) : printed[i] = Text("NLTK was unable to find the TreeTagger bin!")

\* C8: when find_binary fails for a supported language the constructor still
\* returns an instance, and on it no call starts a process or yields a record:
\* a call that has run has raised an error.
C8_UnusableInstance ==
    NotFoundReported =>
        /\ inst = "ready"
        /\ \A c \in Calls :
             /\ proc[c].state = "none"
             /\ yielded[c] = <<>>
             /\ pc[c] \in {"Uncalled", "Idle", "Normalizing", "SpawnError"}
             /\ pc[c] = "SpawnError" => raised[c].type # "none"

C8_Witness ==
    /\ NotFoundReported
    /\ inst = "ready"
    /\ \A c \in Calls : pc[c] = "SpawnError" /\ raised[c].type = "AttributeError"

\* C9 as stated: two exhausted calls given the same input, of any variant,
\* have yielded the same records in the same order.
C9_Idempotent ==
    \A c, d \in Calls :
        (c # d /\ arg[c] = arg[d] /\ pc[c] = "Done" /\ pc[d] = "Done") =>
            yielded[c] = yielded[d]

\* C9 amended: two exhausted calls given the same token list or the same text
\* have yielded the same records in the same order.
C9_IdempotentPayload ==
    \A c, d \in Calls :
        (/\ c # d /\ arg[c] = arg[d] /\ arg[c].kind \in {"list", "str"}
         /\ pc[c] = "Done" /\ pc[d] = "Done") =>
            yielded[c] = yielded[d]

C9_Witness ==
    /\ arg[1] = arg[2] /\ arg[1].kind \in {"list", "str"}
    /\ pc[1] = "Done" /\ pc[2] = "Done"
    /\ yielded[1] # <<>> /\ yielded[1] = yielded[2]

\* the phase of the call that is at position p
Phase(p) ==
    CASE p = "Uncalled" -> "NoCall"
      [] p \in {"ProcessRunning", "Exited"} -> "ProcessRunning"
      [] OTHER -> p

\* C10: a call changes phase only forwards along Idle, Normalizing,
\* ProcessRunning, then Failed or Decoding, then Done: it enters Decoding only
\* when its process has exited with status 0, enters Failed only when it has
\* exited with another status and then neither leaves Failed, yields nor reads,
\* and enters Done only from Decoding with the output file exhausted.  A call
\* that ends in another way (Popen raises, the caller abandons the
\* generator) enters none of these phases afterwards.
C10_PhaseStep(c) ==
    LET p == Phase(pc[c])
        q == Phase(pc'[c])
        exited == proc[c].state = "exited"
    IN  /\ p # q =>
             \/ p = "NoCall" /\ q = "Idle"
             \/ p = "Idle" /\ q = "Normalizing"
             \/ p = "Normalizing" /\ q \in {"ProcessRunning", "SpawnError"}
             \/ p = "ProcessRunning" /\ q = "Failed" /\ exited /\ proc[c].returncode # 0
             \/ p = "ProcessRunning" /\ q = "Decoding" /\ exited /\ proc[c].returncode = 0
             \/ /\ p = "Decoding" /\ q = "Done"
                /\ files[outfile[c]].pos >= Len(files[outfile[c]].content)
             \/ p = "Decoding" /\ q = "Abandoned"
        /\ p = "Failed" =>
             /\ q = "Failed"
             /\ yielded[c] = <<>> /\ yielded'[c] = <<>>
             /\ files'[outfile[c]].pos = files[outfile[c]].pos

C10_Phases == [][\A c \in Calls : C10_PhaseStep(c)]_vars

C10_Witness ==
    \E c \in Calls :
        /\ pc[c] = "Done" /\ Len(yielded[c]) = 2
        /\ proc[c].state = "exited" /\ proc[c].returncode = 0

\* the sixteen logical languages of the public enumeration
EnumeratedLanguages ==
    {"bulgarian", "dutch", "english", "estonian", "finnish", "french", "galician",
     "german", "italian", "polish", "portuguese", "portuguese-finegrained",
     "russian", "slovak", "slovak2", "spanish"}

\* C11: a constructor call with a language outside the enumeration raises,
\* leaves no instance and has not called find_binary; one with an enumerated
\* language calls find_binary and returns an instance, whatever find_binary
\* answers.
C11_LanguageChecked ==
    inst # "none" =>
        /\ ctor.language \notin EnumeratedLanguages =>
             (inst = "raised" /\ ~ctor.asked /\ bin = UNSET /\ printed = <<>>)
        /\ ctor.language \in EnumeratedLanguages => (inst = "ready" /\ ctor.asked)

C11_Witness ==
    /\ inst = "raised"
    /\ ctor.language = "klingon"
    /\ ~ctor.asked

EmptyInput(c) == arg[c] = ListInput(<<>>) \/ arg[c] = StrInput(<<>>)

\* the tool exits with status 0 and writes nothing when its input is empty
QuietOnEmpty == ToolRun(tool, <<>>).rc = 0 /\ ToolRun(tool, <<>>).out = <<>>

\* C12: with a binary that is found and is quiet on empty input, a call given
\* the empty list or the empty string yields no record and raises nothing;
\* its process is started with a pipe as stdin, is sent an empty payload,
\* reads nothing before the end of its input and has that pipe closed.
C12_EmptyInput ==
    \A c \in Calls :
        (EmptyInput(c) /\ QuietOnEmpty /\ ctor.found) =>
            /\ yielded[c] = <<>>
            /\ raised[c] = NoError
            /\ pc[c] \notin {"Failed", "SpawnError", "Abandoned"}
            /\ pc[c] = "ProcessRunning" =>
                 (proc[c].state = "running" /\ proc[c].stdin = "pipe")
            /\ pc[c] \in {"Exited", "Decoding", "Done"} =>
                 /\ proc[c].state = "exited" /\ proc[c].returncode = 0
                 /\ proc[c].sent = <<>> /\ proc[c].got = <<>>
                 /\ proc[c].stdin = "closed"

C12_Witness ==
    /\ arg[1] = ListInput(<<>>) /\ arg[2] = StrInput(<<>>)
    /\ pc[1] = "Done" /\ pc[2] = "Done"
    /\ proc[1].state = "exited" /\ proc[2].state = "exited"
    /\ yielded[1] = <<>> /\ yielded[2] = <<>>

\* C13: once the instance is constructed no step changes the executable path
\* or the abbreviation-list path: whatever tag calls have run, succeeded,
\* failed or been abandoned, both equal their value at the end of construction.
C13_ConfigurationKept ==
    [][inst = "ready" => (bin' = bin /\ abbr' = abbr)]_vars

C13_Witness ==
    /\ inst = "ready"
    /\ abbr = ctor.abbreviation_list /\ abbr # None
    /\ ctor.found /\ bin = Located(TRUE, BinName(ctor.platform, ctor.language))
    /\ pc[1] = "Done" /\ pc[2] = "Abandoned"
    /\ proc[1].argv = <<bin, "-a", abbr>>
    /\ proc[2].argv = <<bin, "-a", abbr>>

\* the lines of a text without their terminators, in order
OutLines(content) ==
    LET parts == SplitOn(content, NL)
    IN  IF parts[Len(parts)] = <<>> THEN SubSeq(parts, 1, Len(parts) - 1) ELSE parts

\* the text of the k-th line the process of call c wrote
OutLine(c, k) == DecodeUtf8(OutLines(proc[c].out)[k])

\* C14 as stated: every record has exactly the tab-separated fields of its
\* line, empty first and last fields included.
C14_FieldsPreserved ==
    \A c \in Calls : \A k \in 1..Len(yielded[c]) :
        yielded[c][k] = SplitOn(OutLine(c, k), TAB)

\* C14: every record has the tab-separated fields of its line taken without
\* its leading and trailing whitespace, tabs included: fields between two
\* kept fields stay, also when empty, and a line that neither starts nor ends
\* with whitespace gives exactly its n fields.
C14_FieldsOfStrippedLine ==
    \A c \in Calls : \A k \in 1..Len(yielded[c]) :
        /\ yielded[c][k] = SplitOn(Strip(OutLine(c, k)), TAB)
        /\ OutLine(c, k) = Strip(OutLine(c, k)) =>
             yielded[c][k] = SplitOn(OutLine(c, k), TAB)

C14_Witness ==
    \E c \in Calls : \E k \in 1..Len(yielded[c]) :
        /\ pc[c] = "Done"
        /\ Len(SplitOn(OutLine(c, k), TAB)) = 5
        /\ Len(yielded[c][k]) = 4
        /\ yielded[c][k][2] = <<>>
        /\ yielded[c][k][1] # <<>> /\ yielded[c][k][4] # <<>>

\* the records of call c grow by the record of the next line, or stay
InOrderStep(c) ==
    \/ yielded'[c] = yielded[c]
    \/ /\ Len(yielded[c]) < Len(OutLines(proc[c].out))
       /\ yielded'[c] = Append(yielded[c], SplitLine(OutLine(c, Len(yielded[c]) + 1)))

\* C15: on a successful call every step hands the caller at most one more
\* record, decoded from the line that follows the lines already decoded,
\* starting with the first line the tool wrote; the records end exactly
\* when every line has given its record.
C15_InOrder ==
    [][\A c \in Calls :
          /\ InOrderStep(c)
          /\ pc'[c] = "Done" => Len(yielded'[c]) = Len(OutLines(proc'[c].out))]_vars

C15_Witness ==
    \E c \in Calls :
        /\ pc[c] = "Done"
        /\ Len(yielded[c]) = 2
        /\ yielded[c][1] # yielded[c][2]
        /\ yielded[c][1] = SplitLine(OutLine(c, 1))
        /\ yielded[c][2] = SplitLine(OutLine(c, 2))

Spawned(c) == pc[c] \in {"ProcessRunning", "Exited", "Failed", "Decoding", "Done", "Abandoned"}
Waited(c) == pc[c] \in {"Exited", "Failed", "Decoding", "Done", "Abandoned"}

IsSuffix(t, s) ==
    Len(t) <= Len(s) /\ SubSeq(s, Len(s) - Len(t) + 1, Len(s)) = t

\* C16: an input without read gives the process a pipe as stdin, and once
\* communicate has returned the encoded payload has been written to the pipe,
\* the process has read just that and the pipe is closed; an input with read
\* is itself the stdin of the process, the call writes nothing and the
\* process reads the rest of the stream.  In both cases the process has
\* exited before the exit status is tested, an error raised or a record read.
C16_InputMode ==
    \A c \in Calls :
        /\ Spawned(c) =>
             IF HasRead(arg[c])
             THEN /\ infile[c] # PIPE /\ infile[c][2] = arg[c].id
                  /\ proc[c].stdin = "inherited"
             ELSE /\ infile[c] = PIPE
                  /\ proc[c].stdin = IF Waited(c) THEN "closed" ELSE "pipe"
        /\ (Spawned(c) /\ ~Waited(c)) =>
             (proc[c].state = "running" /\ proc[c].sent = <<>>)
        /\ Waited(c) =>
             /\ proc[c].state = "exited"
             /\ IF HasRead(arg[c])
                THEN /\ proc[c].sent = <<>>
                     /\ IsSuffix(proc[c].got, streams[arg[c].id].data)
                ELSE /\ proc[c].sent = Encode(NormalizeInput(arg[c]).text)
                     /\ proc[c].got = proc[c].sent
        /\ (yielded[c] # <<>> \/ raised[c].type = "OSError") => proc[c].state = "exited"

C16_Witness ==
    /\ HasRead(arg[1]) /\ ~HasRead(arg[2])
    /\ Waited(1) /\ Waited(2)
    /\ proc[1].stdin = "inherited" /\ proc[1].sent = <<>> /\ proc[1].got # <<>>
    /\ proc[2].stdin = "closed" /\ proc[2].sent # <<>> /\ proc[2].got = proc[2].sent

NotRequested(p) == p \in {"Uncalled", "Idle"}

\* nothing of what the body of tag does has happened for call c
NoEffect(of, pr, ra, yi, ni, inf, c) ==
    /\ of[c] = 0 /\ pr[c] = NoProc /\ ra[c] = NoError
    /\ yi[c] = <<>> /\ ni[c] = NoInput /\ inf[c] = None

====
